---------------------------- MODULE Spec2Model ----------------------------
(***************************************************************************)
(* A model of mhlib's PermutationSolution (src/mhlib/permutation_solution  *)
(* .py): the random initialization, the 2-exchange neighbourhood search    *)
(* with its delta-evaluation hook, and the three crossover operators       *)
(* (partially mapped, cycle, edge recombination).                          *)
(*                                                                         *)
(* Arrays are functions over 0..size-1, as in the source; Python lists     *)
(* (the adjacency lists) are sequences.  One run of the model is one call  *)
(* of one operator: op names the operator, pc its position in the code.    *)
(***************************************************************************)
EXTENDS Integers, Sequences, FiniteSets, TLC

\* Largest instance size n for which every pair of parents, every start
\* solution and every scan order is explored.
MaxN == 3

\* Python's None (best_p1 = None, best_p2 = None).
None == -1

Range(f) == {f[a] : a \in DOMAIN f}

\* len(self.x)
Size(s) == Cardinality(DOMAIN s)

\* All arrays of length n holding each of 0..n-1 once.
Perms(n) ==
    {f \in [0..(n - 1) -> 0..(n - 1)] : \A a, b \in 0..(n - 1) : f[a] = f[b] => a = b}

\* A literal array: the tuple <<v0, v1, ...>> as a function over 0..len-1.
Arr(q) == [a \in 0..(Len(q) - 1) |-> q[a + 1]]

\* check(): set(self.x) == set(range(len(self.x)))
IsPermutation(s) ==
    /\ DOMAIN s = 0..(Size(s) - 1)
    /\ Range(s) = 0..(Size(s) - 1)

\* self.x[p1], self.x[p2] = self.x[p2], self.x[p1]
Exchange(s, a, b) == [s EXCEPT ![a] = s[b], ![b] = s[a]]

VARIABLES
    op,                 \* the operator being called
    pc,                 \* position in the operator's code
    x,                  \* self.x
    y,                  \* other.x (the second parent)
    child,              \* child.x
    child_valid,        \* child.obj_val_valid
    ret,                \* the value returned by the search: "True", "False", "none" so far
    err,                \* the exception raised, "none" if none
    obj_val,            \* self.obj_val
    obj_val_valid,      \* self.obj_val_valid
    c,                  \* the instance's cost vector (objective data)
    to_maximise,        \* policy of is_better_obj
    best_improvement,   \* argument of the search
    hook,               \* which two_exchange_delta_eval is installed
    order,              \* the shuffled scan order
    idx,                \* index of p1 in order
    k2,                 \* index of p2 in order
    orig_obj,
    best_obj,
    best_p1,
    best_p2,
    x0,                 \* history: self.x when the search was called
    hookx,              \* history: x0 with every exchange reported to the hook applied
    att_x,              \* history: self.x before the current/last attempt
    att_obj,            \* history: self.obj_val before the current/last attempt
    begin,
    end,
    pos,                \* the inverse position map
    i,                  \* loop index of the crossover loops
    j,                  \* walk index of the cycle detection
    group,
    group_id,
    adj_lists,
    unvisited,
    elem,
    jumped              \* history: the random jump of edge recombination was taken

searchVars ==
    <<obj_val, obj_val_valid, order, idx, k2, orig_obj, best_obj, best_p1, best_p2,
      x0, hookx, att_x, att_obj>>

inputVars == <<op, y, c, to_maximise, best_improvement, hook>>

crossVars == <<child, child_valid, begin, end, pos, i, j, group, group_id,
               adj_lists, unvisited, elem, jumped>>

vars == <<pc, x, ret, err, inputVars, searchVars, crossVars>>

n == Size(x)

-----------------------------------------------------------------------------
(* The collaborators of the base class, as the search uses them.           *)

\* The instance's objective: a linear assignment cost sum(c[a] * x[a]).
RECURSIVE SumTo(_, _, _)
SumTo(w, s, a) == IF a < 0 THEN 0 ELSE w[a] * s[a] + SumTo(w, s, a - 1)

calc_objective(w, s) == SumTo(w, s, Size(s) - 1)

\* is_better_obj(obj1, obj2): strictly better under the instance's policy.
is_better_obj(maxi, obj1, obj2) == IF maxi THEN obj1 > obj2 ELSE obj1 < obj2

-----------------------------------------------------------------------------
(* two_exchange_neighborhood_search                                        *)

\* Position of the loops after the pair (order[a], order[b]): the next p2 of
\* the inner loop, else the next p1 of the outer loop.
NextPair(a, b, len) ==
    IF b + 1 <= len - 1 THEN <<a, b + 1>> ELSE <<a + 1, a + 2>>

\* for idx, p1 in enumerate(order[:n - 1]): the outer loop has an element left.
LoopsRunning(a, len) == a <= len - 2

\* A comparison with its arguments exchanged.
ImprovesOnBestSwapped(maxi, new_obj, best) == is_better_obj(maxi, best, new_obj)

\* if self.is_better_obj(self.obj(), best_obj)
ImprovesOnBest(maxi, new_obj, best) == is_better_obj(maxi, new_obj, best)

\* A revert that leaves the neighbour's objective in the cache.
KeptObj(current, orig) == current

\* self.obj_val = orig_obj, after the swap back
RestoredObj(current, orig) == orig

\* if best_p1:
Truthy(v) == v # None /\ v # 0

\* lines 50-55: read the objective, draw the scan order.
TwoExchangeBegin ==
    /\ op = "search" /\ pc = "start"
    /\ \E o \in Perms(n) :
        /\ order' = o
        /\ obj_val' = IF obj_val_valid THEN obj_val ELSE calc_objective(c, x)
        /\ obj_val_valid' = TRUE
        /\ orig_obj' = obj_val'
        /\ best_obj' = obj_val'
        /\ best_p1' = None /\ best_p2' = None
        /\ idx' = 0 /\ k2' = 1
        /\ x0' = x /\ hookx' = x /\ att_x' = x /\ att_obj' = obj_val'
        /\ pc' = IF LoopsRunning(0, n) THEN "scan" ELSE "finish"
    /\ UNCHANGED <<x, ret, err, inputVars, crossVars>>

\* lines 58-65: the tentative swap, the hook says feasible, the comparison.
TwoExchangeTry ==
    /\ op = "search" /\ pc = "scan"
    /\ LET p1 == order[idx]
           p2 == order[k2]
           nx == Exchange(x, p1, p2)
           no == calc_objective(c, nx)
       IN  /\ x' = nx
           /\ att_x' = x /\ att_obj' = obj_val
           /\ hookx' = Exchange(hookx, p1, p2)
           /\ obj_val' = no /\ obj_val_valid' = TRUE
           /\ IF ImprovesOnBest(to_maximise, no, best_obj)
              THEN IF ~best_improvement
                   THEN /\ pc' = "returned" /\ ret' = "True"
                        /\ UNCHANGED <<best_obj, best_p1, best_p2>>
                   ELSE /\ best_obj' = no /\ best_p1' = p1 /\ best_p2' = p2
                        /\ pc' = "revert" /\ UNCHANGED ret
              ELSE /\ pc' = "revert"
                   /\ UNCHANGED <<ret, best_obj, best_p1, best_p2>>
    /\ UNCHANGED <<err, inputVars, crossVars, order, idx, k2, orig_obj, x0>>

\* lines 58-59 with an overriding hook that signals infeasible: the body of
\* the if is skipped.  A "reverting" hook has undone the move itself, as the
\* hook's docstring asks; a "passive" one has left the sequence alone.
TwoExchangeInfeasible ==
    /\ op = "search" /\ pc = "scan" /\ hook # "default"
    /\ LET p1 == order[idx]
           p2 == order[k2]
           np == NextPair(idx, k2, n)
       IN  /\ x' = IF hook = "reverting" THEN x ELSE Exchange(x, p1, p2)
           /\ att_x' = x /\ att_obj' = obj_val
           /\ idx' = np[1] /\ k2' = np[2]
           /\ pc' = IF LoopsRunning(np[1], n) THEN "scan" ELSE "finish"
    /\ UNCHANGED <<ret, err, inputVars, crossVars, obj_val, obj_val_valid, order,
                   orig_obj, best_obj, best_p1, best_p2, x0, hookx>>

\* lines 66-68: swap back, restore the objective, tell the hook.
TwoExchangeRevert ==
    /\ op = "search" /\ pc = "revert"
    /\ LET p1 == order[idx]
           p2 == order[k2]
           np == NextPair(idx, k2, n)
       IN  /\ x' = Exchange(x, p1, p2)
           /\ obj_val' = RestoredObj(obj_val, orig_obj)
           /\ hookx' = Exchange(hookx, p1, p2)
           /\ idx' = np[1] /\ k2' = np[2]
           /\ pc' = IF LoopsRunning(np[1], n) THEN "scan" ELSE "finish"
    /\ UNCHANGED <<ret, err, inputVars, crossVars, obj_val_valid, order, orig_obj,
                   best_obj, best_p1, best_p2, x0, att_x, att_obj>>

\* lines 69-74: adopt the recorded best pair, or restore and return False.
TwoExchangeFinish ==
    /\ op = "search" /\ pc = "finish"
    /\ IF Truthy(best_p1)
       THEN /\ x' = Exchange(x, best_p1, best_p2)
            /\ obj_val' = best_obj
            /\ ret' = "True"
       ELSE /\ x' = x
            /\ obj_val' = orig_obj
            /\ ret' = "False"
    /\ pc' = "returned"
    /\ UNCHANGED <<err, inputVars, crossVars, obj_val_valid, order, idx, k2, orig_obj,
                   best_obj, best_p1, best_p2, x0, hookx, att_x, att_obj>>

-----------------------------------------------------------------------------
(* initialize                                                               *)

\* np.random.shuffle(self.x): any rearrangement of the current contents.
Shuffles(s) == {[a \in DOMAIN s |-> s[p[a]]] : p \in Perms(Size(s))}

\* lines 25-26
Initialize ==
    /\ op = "initialize" /\ pc = "start"
    /\ x' \in Shuffles(x)
    /\ obj_val_valid' = FALSE
    /\ pc' = "returned"
    /\ UNCHANGED <<ret, err, inputVars, crossVars, obj_val, order, idx, k2, orig_obj,
                   best_obj, best_p1, best_p2, x0, hookx, att_x, att_obj>>

-----------------------------------------------------------------------------
(* The inverse position map of both crossovers:                            *)
(*     for i, elem in enumerate(s): pos[elem] = i                          *)
(* np.empty leaves an entry that is never written undefined; for a         *)
(* permutation every entry is written.                                     *)
PositionMap(s) ==
    [e \in 0..(Size(s) - 1) |-> IF e \in Range(s)
                                THEN CHOOSE a \in DOMAIN s :
                                        /\ s[a] = e
                                        /\ \A b \in DOMAIN s : s[b] = e => b <= a
                                ELSE 0]

-----------------------------------------------------------------------------
(* partially_mapped_crossover                                              *)

\* lines 108-111: begin == end moves end up by one, then the two are ordered.
CutPoints(b, e) ==
    LET e1 == IF b = e THEN e + 1 ELSE e
    IN  IF b > e1 THEN <<e1, b>> ELSE <<b, e1>>

\* An overwrite instead of an exchange: child.x[i] = elem alone.
PMXOverwrite(ch, a, b, e, e2) == [ch EXCEPT ![a] = e]

\* child.x[i], child.x[j] = elem, elem_2
PMXExchange(ch, a, b, e, e2) == [ch EXCEPT ![a] = e, ![b] = e2]

\* A map update that forgets the displaced element: pos[elem] = i alone.
PMXPosUpdateFirstOnly(ps, a, b, e, e2) == [ps EXCEPT ![e] = a]

\* pos[elem], pos[elem_2] = i, j
PMXPosUpdate(ps, a, b, e, e2) == [ps EXCEPT ![e] = a, ![e2] = b]

\* line 107 when size - 1 = 0: random.randrange(0) raises ValueError.
PMXRaise ==
    /\ op = "pmx" /\ pc = "start"
    /\ n - 1 <= 0
    /\ err' = "ValueError"
    /\ pc' = "raised"
    /\ UNCHANGED <<x, ret, inputVars, searchVars, crossVars>>

\* lines 103-118: draw the cut, copy the first parent, build pos.
PMXBegin ==
    /\ op = "pmx" /\ pc = "start"
    /\ n - 1 > 0
    /\ \E b \in 0..(n - 1), e \in 0..(n - 2) :
        /\ begin' = CutPoints(b, e)[1]
        /\ end' = CutPoints(b, e)[2]
        /\ i' = CutPoints(b, e)[1]
    /\ child' = x
    /\ child_valid' = obj_val_valid
    /\ pos' = PositionMap(x)
    /\ pc' = "pmx_loop"
    /\ UNCHANGED <<x, ret, err, inputVars, searchVars, j, group, group_id,
                   adj_lists, unvisited, elem, jumped>>

\* lines 119-125: one iteration of for i in range(begin, end).
PMXStep ==
    /\ op = "pmx" /\ pc = "pmx_loop"
    /\ i < end
    /\ LET e  == y[i]
           jj == pos[e]
           e2 == child[i]
       IN  /\ elem' = e
           /\ j' = jj
           /\ IF i # jj
              THEN /\ child' = PMXExchange(child, i, jj, e, e2)
                   /\ pos' = PMXPosUpdate(pos, i, jj, e, e2)
              ELSE UNCHANGED <<child, pos>>
    /\ i' = i + 1
    /\ UNCHANGED <<pc, x, ret, err, inputVars, searchVars, child_valid, begin, end,
                   group, group_id, adj_lists, unvisited, jumped>>

\* lines 126-127
PMXFinish ==
    /\ op = "pmx" /\ pc = "pmx_loop"
    /\ i >= end
    /\ child_valid' = FALSE
    /\ pc' = "returned"
    /\ UNCHANGED <<x, ret, err, inputVars, searchVars, child, begin, end, pos, i, j,
                   group, group_id, adj_lists, unvisited, elem, jumped>>

-----------------------------------------------------------------------------
(* cycle_crossover                                                         *)

\* A walk that forgets to label the index it visits.
LabelSkipped(g, a, id) == g

\* group[j] = group_id
Label(g, a, id) == [g EXCEPT ![a] = id]

\* elem = other.x[j]; j = pos[elem]
Follow(ps, other, a) == ps[other[a]]

\* child.x[pos] = other.x[pos] with pos an integer array: numpy reads
\* other.x at every index held in pos and writes each value to the same
\* index of child.x.
FancyAssign(ch, other, ps) ==
    [a \in DOMAIN ch |-> IF a \in Range(ps) THEN other[a] ELSE ch[a]]

\* if child.x[i] % 2 == 1
ExchangeTest(ch, a) == ch[a] % 2 = 1

\* lines 137-144
CXBegin ==
    /\ op = "cx" /\ pc = "start"
    /\ pos' = PositionMap(x)
    /\ group' = [a \in 0..(n - 1) |-> 0]
    /\ group_id' = 1
    /\ i' = 0
    /\ pc' = "cx_detect"
    /\ UNCHANGED <<x, ret, err, inputVars, searchVars, child, child_valid, begin, end,
                   j, adj_lists, unvisited, elem, jumped>>

\* lines 145-148: the next i of the detection loop.
CXDetect ==
    /\ op = "cx" /\ pc = "cx_detect"
    /\ i < n
    /\ IF group[i] # 0
       THEN /\ i' = i + 1
            /\ UNCHANGED <<pc, j>>
       ELSE /\ j' = i
            /\ pc' = "cx_walk"
            /\ UNCHANGED i
    /\ UNCHANGED <<x, ret, err, inputVars, searchVars, child, child_valid, begin, end,
                   pos, group, group_id, adj_lists, unvisited, elem, jumped>>

\* lines 149-152: one iteration of while not group[j].
CXWalk ==
    /\ op = "cx" /\ pc = "cx_walk"
    /\ group[j] = 0
    /\ group' = Label(group, j, group_id)
    /\ elem' = y[j]
    /\ j' = Follow(pos, y, j)
    /\ UNCHANGED <<pc, x, ret, err, inputVars, searchVars, child, child_valid, begin,
                   end, pos, i, group_id, adj_lists, unvisited, jumped>>

\* line 153: the walk met a labelled index.
CXWalkEnd ==
    /\ op = "cx" /\ pc = "cx_walk"
    /\ group[j] # 0
    /\ group_id' = group_id + 1
    /\ i' = i + 1
    /\ pc' = "cx_detect"
    /\ UNCHANGED <<x, ret, err, inputVars, searchVars, child, child_valid, begin, end,
                   pos, j, group, adj_lists, unvisited, elem, jumped>>

\* line 156: child = self.copy()
CXCopy ==
    /\ op = "cx" /\ pc = "cx_detect"
    /\ i >= n
    /\ child' = x
    /\ child_valid' = obj_val_valid
    /\ i' = 0
    /\ pc' = "cx_exchange"
    /\ UNCHANGED <<x, ret, err, inputVars, searchVars, begin, end, pos, j, group,
                   group_id, adj_lists, unvisited, elem, jumped>>

\* lines 157-159: one iteration of the exchange loop.
CXExchange ==
    /\ op = "cx" /\ pc = "cx_exchange"
    /\ i < n
    /\ child' = IF ExchangeTest(child, i) THEN FancyAssign(child, y, pos) ELSE child
    /\ i' = i + 1
    /\ UNCHANGED <<pc, x, ret, err, inputVars, searchVars, child_valid, begin, end,
                   pos, j, group, group_id, adj_lists, unvisited, elem, jumped>>

\* lines 160-161
CXFinish ==
    /\ op = "cx" /\ pc = "cx_exchange"
    /\ i >= n
    /\ child_valid' = FALSE
    /\ pc' = "returned"
    /\ UNCHANGED <<x, ret, err, inputVars, searchVars, child, begin, end, pos, i, j,
                   group, group_id, adj_lists, unvisited, elem, jumped>>

-----------------------------------------------------------------------------
(* edge_recombination                                                      *)

\* nb in nbs
Contains(nbs, nb) == \E a \in 1..Len(nbs) : nbs[a] = nb

\* append_if_not_contained(nbs, nb)
append_if_not_contained(nbs, nb) == IF Contains(nbs, nb) THEN nbs ELSE Append(nbs, nb)

\* The two appends of one loop iteration, for element s[a]: its cyclic
\* predecessor, then its cyclic successor.
AddNeighbours(adj, s, a) ==
    LET len == Size(s)
        e   == s[a]
        l1  == append_if_not_contained(adj[e], s[(a - 1) % len])
        l2  == append_if_not_contained(l1, s[(a + 1) % len])
    IN  [adj EXCEPT ![e] = l2]

\* for i, elem in enumerate(s): ... from index a on.  (The lists after one
\* iteration are bound to nadj as a value, so that they are computed once.)
RECURSIVE AddAll(_, _, _)
AddAll(adj, s, a) ==
    IF a >= Size(s) THEN adj
    ELSE CHOOSE r \in {AddAll(nadj, s, a + 1) : nadj \in {AddNeighbours(adj, s, a)}} : TRUE

\* lines 181-187
BuildAdjLists(s, other) ==
    AddAll(AddAll([e \in 0..(Size(s) - 1) |-> <<>>], s, 0), other, 0)

\* list.remove(v): drops the first occurrence of v.
RECURSIVE Remove(_, _)
Remove(nbs, v) ==
    IF nbs = <<>> THEN <<>>
    ELSE IF Head(nbs) = v THEN Tail(nbs)
    ELSE <<Head(nbs)>> \o Remove(Tail(nbs), v)

\* An accepted element that stays in its neighbours' lists.
NoRemoval(adj, e, k) == [ok |-> TRUE, adj |-> adj]

\* for j in adj_lists[elem]: adj_lists[j].remove(elem), from list index k on.
\* ok is FALSE when a remove() finds elem absent (ValueError).
RECURSIVE RemoveFromNeighbours(_, _, _)
RemoveFromNeighbours(adj, e, k) ==
    IF k > Len(adj[e]) THEN [ok |-> TRUE, adj |-> adj]
    ELSE LET jj == adj[e][k]
         IN  IF ~Contains(adj[jj], e)
             THEN [ok |-> FALSE, adj |-> adj]
             ELSE CHOOSE r \in {RemoveFromNeighbours(nadj, e, k + 1) :
                                nadj \in {[adj EXCEPT ![jj] = Remove(adj[jj], e)]}} : TRUE

\* lines 203-208: the loop over adj_lists[elem][1:], from list index k on.
\* degree stays the first candidate's degree throughout.
RECURSIVE CandidateLoop(_, _, _, _, _)
CandidateLoop(adj, nbs, k, candidates, degree) ==
    IF k > Len(nbs) THEN candidates
    ELSE LET e2        == nbs[k]
             degree_e2 == Len(adj[e2])
         IN  IF degree_e2 < degree
             THEN CandidateLoop(adj, nbs, k + 1, <<e2>>, degree)
             ELSE IF degree_e2 = degree
             THEN CandidateLoop(adj, nbs, k + 1, Append(candidates, e2), degree)
             ELSE CandidateLoop(adj, nbs, k + 1, candidates, degree)

\* lines 201-208
Candidates(adj, e) ==
    CandidateLoop(adj, adj[e], 2, <<adj[e][1]>>, Len(adj[adj[e][1]]))

\* lines 180-190: adjacency lists, unvisited set, copy, start element.
ERBegin ==
    /\ op = "er" /\ pc = "start"
    /\ adj_lists' = BuildAdjLists(x, y)
    /\ unvisited' = 0..(n - 1)
    /\ child' = x
    /\ child_valid' = obj_val_valid
    /\ elem' \in 0..(n - 1)
    /\ i' = 0
    /\ pc' = "er_loop"
    /\ UNCHANGED <<x, ret, err, inputVars, searchVars, begin, end, pos, j, group,
                   group_id, jumped>>

\* lines 191-211: one iteration of for i in range(size-1).
ERStep ==
    /\ op = "er" /\ pc = "er_loop"
    /\ i < n - 1
    /\ LET rem == RemoveFromNeighbours(adj_lists, elem, 1)
           unv == unvisited \ {elem}
           sels == IF rem.adj[elem] = <<>> THEN unv
                   ELSE Range(Candidates(rem.adj, elem))
       IN  /\ child' = [child EXCEPT ![i] = elem]
           /\ IF elem \notin unvisited
              THEN /\ err' = "KeyError" /\ pc' = "raised"
                   /\ UNCHANGED <<unvisited, adj_lists, elem, i, jumped>>
              ELSE IF ~rem.ok
              THEN /\ err' = "ValueError" /\ pc' = "raised"
                   /\ unvisited' = unv
                   /\ UNCHANGED <<adj_lists, elem, i, jumped>>
              ELSE IF sels = {}
              THEN /\ err' = "IndexError" /\ pc' = "raised"
                   /\ unvisited' = unv
                   /\ adj_lists' = rem.adj
                   /\ UNCHANGED <<elem, i, jumped>>
              ELSE /\ unvisited' = unv
                   /\ \E sel \in sels : elem' = sel
                   /\ adj_lists' = [rem.adj EXCEPT ![elem] = <<>>]
                   /\ jumped' = (jumped \/ rem.adj[elem] = <<>>)
                   /\ i' = i + 1
                   /\ UNCHANGED <<pc, err>>
    /\ UNCHANGED <<x, ret, inputVars, searchVars, child_valid, begin, end, pos, j,
                   group, group_id>>

\* lines 212-214
ERFinish ==
    /\ op = "er" /\ pc = "er_loop"
    /\ i >= n - 1
    /\ child' = [child EXCEPT ![n - 1] = elem]
    /\ child_valid' = FALSE
    /\ pc' = "returned"
    /\ UNCHANGED <<x, ret, err, inputVars, searchVars, begin, end, pos, i, j, group,
                   group_id, adj_lists, unvisited, elem, jumped>>

-----------------------------------------------------------------------------
(* Initial states: one call of one operator on valid inputs.               *)

Sizes == 1..MaxN

\* Cost vectors of the instance.
Costs(len) == [0..(len - 1) -> {0, 1}]

\* Larger parent pairs: the two cases of cycle_crossover_test.py, and a pair
\* on which edge recombination runs into an empty adjacency list.
ExtraPairs ==
    { <<Arr(<<1, 4, 6, 2, 0, 3, 5>>), Arr(<<6, 1, 4, 2, 5, 0, 3>>)>>,
      <<Arr(<<1, 4, 6, 2, 0, 3, 5>>), Arr(<<6, 1, 4, 0, 2, 5, 3>>)>>,
      <<Arr(<<6, 1, 4, 0, 2, 5, 3>>), Arr(<<1, 4, 6, 2, 0, 3, 5>>)>>,
      <<Arr(<<0, 1, 2, 3, 4, 5, 6>>), Arr(<<0, 1, 2, 5, 4, 6, 3>>)>> }

ParentPairs ==
    UNION {Perms(len) \X Perms(len) : len \in Sizes} \cup ExtraPairs

InitLocals ==
    /\ pc = "start" /\ ret = "none" /\ err = "none"
    /\ obj_val = 0 /\ obj_val_valid = FALSE
    /\ order = <<>> /\ idx = 0 /\ k2 = 0
    /\ orig_obj = 0 /\ best_obj = 0 /\ best_p1 = None /\ best_p2 = None
    /\ x0 = x /\ hookx = x /\ att_x = x /\ att_obj = 0
    /\ child = <<>> /\ child_valid = FALSE
    /\ begin = 0 /\ end = 0 /\ pos = <<>> /\ i = 0 /\ j = 0
    /\ group = <<>> /\ group_id = 0
    /\ adj_lists = <<>> /\ unvisited = {} /\ elem = 0 /\ jumped = FALSE

\* A call of a crossover on two parents.
InitCross(ops) ==
    /\ op \in ops
    /\ \E pq \in ParentPairs : x = pq[1] /\ y = pq[2]
    /\ c = [a \in DOMAIN x |-> 0]
    /\ to_maximise = FALSE /\ best_improvement = FALSE /\ hook = "default"
    /\ InitLocals

\* A call of the search on a solution of an instance.
InitSearch(hooks) ==
    /\ op = "search"
    /\ \E len \in Sizes : x \in Perms(len) /\ c \in Costs(len)
    /\ y = x
    /\ to_maximise \in BOOLEAN /\ best_improvement \in BOOLEAN
    /\ hook \in hooks
    /\ InitLocals

\* A call of initialize() on a fresh solution.
InitInitialize ==
    /\ op = "initialize"
    /\ \E len \in Sizes : x = [a \in 0..(len - 1) |-> a]
    /\ y = x
    /\ c = [a \in DOMAIN x |-> 0]
    /\ to_maximise = FALSE /\ best_improvement = FALSE /\ hook = "default"
    /\ InitLocals

Init ==
    \/ InitInitialize
    \/ InitSearch({"default"})
    \/ InitCross({"pmx", "cx", "er"})

SearchNext ==
    \/ TwoExchangeBegin
    \/ TwoExchangeTry
    \/ TwoExchangeRevert
    \/ TwoExchangeFinish

PMXNext == PMXRaise \/ PMXBegin \/ PMXStep \/ PMXFinish

CXNext == CXBegin \/ CXDetect \/ CXWalk \/ CXWalkEnd \/ CXCopy \/ CXExchange \/ CXFinish

ERNext == ERBegin \/ ERStep \/ ERFinish

Next == Initialize \/ SearchNext \/ PMXNext \/ CXNext \/ ERNext

\* Every operator, with the hook of the source.
Spec == Init /\ [][Next]_vars

\* The same, where a call that can take a step eventually takes it.
FairSpec == Spec /\ WF_vars(Next)

\* The search alone, with the hook of the source.
SpecSearch == InitSearch({"default"}) /\ [][SearchNext]_vars

\* The search with the hook of the source or an overriding hook that may
\* signal infeasible.
SpecHook ==
    InitSearch({"default", "reverting", "passive"})
        /\ [][SearchNext \/ TwoExchangeInfeasible]_vars

SpecPMX == InitCross({"pmx"}) /\ [][PMXNext]_vars

SpecCX == InitCross({"cx"}) /\ [][CXNext]_vars

SpecER == InitCross({"er"}) /\ [][ERNext]_vars

-----------------------------------------------------------------------------
(* Vocabulary of the properties.                                           *)

Crossovers == {"pmx", "cx", "er"}

Halted == pc \in {"returned", "raised"}

\* The 2-exchange neighbours of s, as pairs of positions.
Pairs(s) == {pq \in (DOMAIN s) \X (DOMAIN s) : pq[1] < pq[2]}

\* The correspondence of cycle crossover on the parents s and other: index a
\* goes to the position in s of other's value at a.
Corr(s, other, a) == CHOOSE b \in DOMAIN s : s[b] = other[a]

\* The indices met from a in at most k steps of the correspondence.
RECURSIVE Orbit(_, _, _, _)
Orbit(s, other, a, k) ==
    IF k = 0 THEN {a} ELSE {a} \cup Orbit(s, other, Corr(s, other, a), k - 1)

CycleOf(s, other, a) == Orbit(s, other, a, Size(s))

Lowest(S) == CHOOSE a \in S : \A b \in S : a <= b

\* The number of a's cycle, cycles counted 1, 2, 3, ... by lowest index.
CycleNumber(s, other, a) ==
    Cardinality({Lowest(CycleOf(s, other, b)) : b \in 0..Lowest(CycleOf(s, other, a))})

\* The child that exchanges the even-numbered cycles.
AlternateCycleChild(s, other) ==
    [a \in DOMAIN s |-> IF CycleNumber(s, other, a) % 2 = 0 THEN other[a] ELSE s[a]]

\* s read cyclically from index r on, forwards (d = 1) or backwards (d = -1).
Rotation(s, r, d) == [a \in DOMAIN s |-> s[(r + d * a) % Size(s)]]

RotationsAndReflections(s) == {Rotation(s, r, d) : r \in DOMAIN s, d \in {1, -1}}

-----------------------------------------------------------------------------
(* The properties.                                                         *)

\* C1: whenever an operator has returned, its result is a permutation of
\* 0..n-1: the solution's own sequence after initialize() and after the
\* search, the child's sequence (of the parents' length) after a crossover.
C1_ResultIsPermutation ==
    pc = "returned" =>
        IF op \in Crossovers
        THEN IsPermutation(child) /\ Size(child) = n
        ELSE IsPermutation(x) /\ Size(x) = Size(x0)

\* C1 witness: a cycle crossover has returned a child that differs from the
\* first parent.
C1_Witness == pc = "returned" /\ op = "cx" /\ child # x /\ n = 3

\* C2: the child returned by cycle_crossover holds the other parent's value
\* at every index of an even-numbered cycle and the first parent's value at
\* every other index.
C2_ExchangesAlternateCycles ==
    (pc = "returned" /\ op = "cx") => child = AlternateCycleChild(x, y)

\* C3: in best-improvement mode the search returns true exactly when some
\* 2-exchange neighbour of the starting sequence is strictly better than the
\* starting objective; on true the sequence is the start with the recorded
\* best pair swapped, no neighbour beats the adopted objective and the cached
\* objective is the recorded best; on false the original objective is back.
C3_BestImprovementAdoptsBest ==
    (pc = "returned" /\ op = "search" /\ best_improvement) =>
        /\ ret = "True" <=>
              \E pq \in Pairs(x0) :
                  is_better_obj(to_maximise,
                                calc_objective(c, Exchange(x0, pq[1], pq[2])), orig_obj)
        /\ ret = "True" =>
              /\ best_p1 # None
              /\ x = Exchange(x0, best_p1, best_p2)
              /\ obj_val = best_obj
              /\ \A pq \in Pairs(x0) :
                    ~is_better_obj(to_maximise,
                                   calc_objective(c, Exchange(x0, pq[1], pq[2])), obj_val)
        /\ ret = "False" => obj_val = orig_obj

\* C4: when the search has returned, in either mode, the objective of the
\* resulting sequence is no worse than the objective before the call, and
\* the cached objective is the objective of the resulting sequence.
C4_NeverDegrades ==
    (pc = "returned" /\ op = "search") =>
        /\ orig_obj = calc_objective(c, x0)
        /\ ~is_better_obj(to_maximise, orig_obj, calc_objective(c, x))
        /\ obj_val_valid
        /\ obj_val = calc_objective(c, x)

\* C4 witness: a best-improvement search has returned true.
C4_Witness ==
    /\ pc = "returned" /\ op = "search" /\ best_improvement /\ ret = "True"
    /\ is_better_obj(to_maximise, obj_val, orig_obj)

\* The sequence and the cached objective are those before the last attempt
\* whenever the next pair is about to be tried or the loops are over, and
\* those before the call whenever the search has returned false.
RevertedBetweenAttempts ==
    /\ (op = "search" /\ pc \in {"scan", "finish"}) =>
            x = att_x /\ obj_val = att_obj
    /\ (op = "search" /\ pc = "returned" /\ ret = "False") =>
            x = x0 /\ obj_val = orig_obj

\* C5 as stated: after every attempt that is not adopted the sequence and
\* the cached objective equal their values before the attempt, and after a
\* false return their values before the call, for any hook, also one that
\* signals infeasible without touching the sequence.
C5_RevertForAnyHook == RevertedBetweenAttempts

\* C5 amended: the same, for the hook of the source and for every hook that
\* undoes the move itself when it signals infeasible.
C5_RevertForRevertingHook == hook # "passive" => RevertedBetweenAttempts

\* C5 witness: under a hook that can signal infeasible, a best-improvement
\* search is between two attempts with an improving pair recorded and the
\* sequence back at its value before the call.
C5_Witness ==
    /\ op = "search" /\ hook = "reverting" /\ pc = "scan"
    /\ best_p1 # None /\ x = x0 /\ idx = 1

\* C6: no crossover raises an error, for every n >= 1.
C6_NoCrossoverRaises == op \in Crossovers => (err = "none" /\ pc # "raised")

\* The window of the other parent, and what is claimed of the child, once
\* the cut is drawn.
PMXWindow == begin..(end - 1)

\* C7: in partially_mapped_crossover the cut satisfies begin < end, the
\* inverse position map is the exact inverse of the child after each
\* exchange, the child equals the other parent at every window index already
\* handled (at the whole window on return), and every index outside the
\* window where the child differs from the first parent held, in the first
\* parent, a value of the other parent's window.
C7_PMXRealizesWindow ==
    (op = "pmx" /\ pc \in {"pmx_loop", "returned"}) =>
        /\ 0 <= begin /\ begin < end /\ end <= n
        /\ begin <= i /\ i <= end
        /\ pc = "returned" => i = end
        /\ \A a \in DOMAIN child : pos[child[a]] = a
        /\ \A a \in begin..(i - 1) : child[a] = y[a]
        /\ \A a \in DOMAIN child \ PMXWindow :
              child[a] # x[a] => \E b \in PMXWindow : y[b] = x[a]

\* C7 witness: a partially mapped crossover has returned a child that
\* differs from the first parent outside the window.
C7_Witness ==
    /\ op = "pmx" /\ pc = "returned"
    /\ \E a \in DOMAIN child \ PMXWindow : child[a] # x[a]

C9_RunsToCompletion ==
    /\ <>Halted
    /\ [](op = "cx" /\ pc = "cx_walk" /\ group[j] # 0 => j = i)
    /\ [](op = "cx" /\ pc \in {"cx_exchange", "returned"} =>
            \A a \in DOMAIN x : group[a] = CycleNumber(x, y, a))

\* C9 witness: a cycle detection on parents of length 3 has ended with two
\* cycles labelled.
C9_Witness ==
    /\ op = "cx" /\ pc = "cx_exchange" /\ n = 3 /\ group_id = 3
    /\ \E a \in DOMAIN x : group[a] = 2

\* C10: when the search returns, the exchanges reported to the hook, applied
\* in call order to the sequence before the call, give the sequence the
\* solution holds.
C10_HookSeesEveryExchange ==
    (op = "search" /\ pc = "returned") => hookx = x

=============================================================================
